---------------------------- MODULE Spec2Model ----------------------------
(***************************************************************************)
(* A model of parallel_wavegan/bin/train.py:                               *)
(*   - CustomCollater (__init__, __call__, _assert_ready_for_upsampling,   *)
(*     _pad_2darray): specifications Spec and SpecScenario;                *)
(*   - the training loop of main(): specification SpecTrain.               *)
(* Arrays are sequences.  An audio sample or a feature frame is named by   *)
(* its 1-based position in the raw array it comes from, so that a slice    *)
(* shows where it starts and padding (the value 0) is told from data.      *)
(***************************************************************************)
EXTENDS Integers, Sequences, FiniteSets

\* ------------------------------------------------------------- bounds
MaxHop == 2
MaxWindow == 1
MaxSteps == 3
MaxFrames == 5
MaxBatch == 2
FeatDim == 2
MaxNegative == 2
MaxIters == 3
MaxPassBatches == 2

\* ---------------------------------------------- constructor defaults
DefaultBatchMaxSteps == 20480
DefaultHopSize == 256
DefaultAuxContextWindow == 2

VARIABLES
    \* CustomCollater: the constructor argument and the fields of self
    arg_batch_max_steps, batch_max_steps, batch_max_frames, hop_size,
    aux_context_window,
    \* the DataLoader's batch_size and the <<len(audio), len(features)>> pairs
    \* the dataset can yield
    batch_size, dataset,
    \* CustomCollater.__call__: position, the items of the argument consumed
    \* so far, the list new_batch, the offsets drawn, the result, the error
    cpc, batch, new_batch, start_frames, ret, err,
    \* main(): the configuration read by the loop and the number of batches
    \* the training loader yields in one pass
    iters, discriminator_start_iter, grad_norm, num_batches,
    \* main(): global_steps, the position in the loop, the batches consumed in
    \* the current pass
    global_steps, pc, batch_idx,
    \* per network ("g", "d"): the number of updates its parameters have had,
    \* its optimizer's and its scheduler's step counts, the state of .grad
    params, optim, sched, grad,
    \* history: the operations of the current (or last) inner iteration, the
    \* value of global_steps it runs under, the iterations completed, and
    \* those completed under global_steps > discriminator_start_iter
    log, iter_step, iters_done, gated_done

collaterVars == <<arg_batch_max_steps, batch_max_steps, batch_max_frames,
                  hop_size, aux_context_window, batch_size, dataset,
                  cpc, batch, new_batch, start_frames, ret, err>>

trainVars == <<iters, discriminator_start_iter, grad_norm, num_batches,
               global_steps, pc, batch_idx, params, optim, sched, grad,
               log, iter_step, iters_done, gated_done>>

vars == <<collaterVars, trainVars>>

NoBatch == [kind |-> "none"]
NoCrop == 0 - 1

Min(a, b) == IF a < b THEN a ELSE b
Max(a, b) == IF a > b THEN a ELSE b

RECURSIVE MaxOf(_)
\* Python's max() of a non-empty list
MaxOf(s) == IF Len(s) = 1 THEN s[1] ELSE Max(s[1], MaxOf(Tail(s)))

\* ------------------------------------------------------ raw arrays
\* audio of length n: the samples 1..n
RawAudio(n) == [i \in 1..n |-> i]
\* features of n frames, each of FeatDim values
RawFeatures(n) == [t \in 1..n |-> [d \in 1..FeatDim |-> t]]
RawPair(item) == [x |-> RawAudio(item[1]), c |-> RawFeatures(item[2])]

\* Python's s[a:b] on a sequence (0-based, negative indices count from the
\* end, both ends clamped to the sequence)
PySlice(s, a, b) ==
    LET n == Len(s)
        lo == IF a < 0 THEN Max(n + a, 0) ELSE Min(a, n)
        hi == IF b < 0 THEN Max(n + b, 0) ELSE Min(b, n)
    IN IF hi > lo THEN SubSeq(s, lo + 1, hi) ELSE <<>>

\* ---------------------------------------------------- __init__
NormalizeSteps(steps, hop) ==
    IF steps % hop # 0 THEN steps + (0 - (steps % hop)) ELSE steps

\* ------------------------------------- _assert_ready_for_upsampling
AssertReady(x, c, hop, context_window) ==
    Len(x) = (Len(c) - 2 * context_window) * hop

\* the context window of the assertion on the raw pair
RawWindowConfigured == aux_context_window

RawContextWindow == 0

\* ------------------------------------------------ np.random.randint
\* the values randint(low, high) can return; none: it raises ValueError
RandintFallback(low, high) == IF low >= high THEN {low} ELSE low..(high - 1)

Randint(low, high) == IF low >= high THEN {} ELSE low..(high - 1)

\* ------------------------------------------------ the crop interval
IntervalStart == aux_context_window

IntervalEnd(c) == Len(c) - batch_max_frames - aux_context_window

\* the slice taken from start_frame, not from start_step
CropAudioUnscaled(x, start_frame) ==
    PySlice(x, start_frame, start_frame + batch_max_steps)

CropAudio(x, start_frame) ==
    LET start_step == start_frame * hop_size
    IN PySlice(x, start_step, start_step + batch_max_steps)

CropFeatures(c, start_frame) ==
    PySlice(c, start_frame - aux_context_window,
            start_frame + aux_context_window + batch_max_frames)

\* ------------------------------------------------------ _pad_2darray
\* np.pad(x, [(b_pad, max_len - len(x) - b_pad), (0, 0)]) of a 2-d array of
\* rows of width d; a negative pad width is an error (never asked for here)
PadLeading(x, max_len, d) ==
    [i \in 1..(max_len - Len(x)) |-> [j \in 1..d |-> 0]] \o x

Pad2dArray(x, max_len, d) ==
    x \o [i \in 1..(max_len - Len(x)) |-> [j \in 1..d |-> 0]]

\* x.reshape(-1, 1)
Reshape(x) == [i \in 1..Len(x) |-> <<x[i]>>]

\* np.array of a list of 2-d arrays of one shape (n, d): shape (B, n, d)
NpArray(list, d) ==
    [shape |-> <<Len(list), Len(list[1]), d>>, data |-> list]

\* tensor.transpose(2, 1)
Transpose21(t) ==
    [shape |-> <<t.shape[1], t.shape[3], t.shape[2]>>,
     data |-> [i \in 1..t.shape[1] |->
                 [j \in 1..t.shape[3] |->
                    [k \in 1..t.shape[2] |-> t.data[i][k][j]]]]]

\* torch.randn(size): one N(0,1) draw per entry
Randn(size) ==
    [shape |-> size,
     data |-> [i \in 1..size[1] |->
                 [j \in 1..size[2] |-> [k \in 1..size[3] |-> "N01"]]]]

Xlens(b) == [i \in 1..Len(b) |-> Len(b[i].x)]
Clens(b) == [i \in 1..Len(b) |-> Len(b[i].c)]

\* the list comprehensions of lines 73 and 79, as Python lists
PaddedAudio(b, max_olen) ==
    [i \in 1..Len(b) |-> Pad2dArray(Reshape(b[i].x), max_olen, 1)] \o <<>>

PaddedFeatures(b, max_clen) ==
    [i \in 1..Len(b) |-> Pad2dArray(b[i].c, max_clen, FeatDim)] \o <<>>

\* ------------------------------------------------------ __call__
Raise(e) ==
    /\ cpc' = "raised"
    /\ err' = e
    /\ UNCHANGED <<new_batch, ret>>

Append2(item, x, c, f) ==
    /\ batch' = Append(batch, RawPair(item))
    /\ new_batch' = Append(new_batch, [x |-> x, c |-> c])
    /\ start_frames' = Append(start_frames, f)
    /\ UNCHANGED <<cpc, ret, err>>

Config == <<arg_batch_max_steps, batch_max_steps, batch_max_frames,
            hop_size, aux_context_window, batch_size, dataset>>

\* line 57 fails
ItemRawAssertFails ==
    /\ cpc = "loop" /\ Len(batch) < batch_size
    /\ \E item \in dataset :
         LET p == RawPair(item) IN
         /\ ~AssertReady(p.x, p.c, hop_size, RawContextWindow)
         /\ batch' = Append(batch, p)
         /\ start_frames' = Append(start_frames, NoCrop)
         /\ Raise("AssertionError")
    /\ UNCHANGED <<Config, trainVars>>

\* lines 57-58, 67: the pair is not longer than batch_max_steps
ItemPassThrough ==
    /\ cpc = "loop" /\ Len(batch) < batch_size
    /\ \E item \in dataset :
         LET p == RawPair(item) IN
         /\ AssertReady(p.x, p.c, hop_size, RawContextWindow)
         /\ ~(Len(p.x) > batch_max_steps)
         /\ Append2(item, p.x, p.c, NoCrop)
    /\ UNCHANGED <<Config, trainVars>>

\* lines 57-61: randint raises on an empty interval
ItemRandintRaises ==
    /\ cpc = "loop" /\ Len(batch) < batch_size
    /\ \E item \in dataset :
         LET p == RawPair(item) IN
         /\ AssertReady(p.x, p.c, hop_size, RawContextWindow)
         /\ Len(p.x) > batch_max_steps
         /\ Randint(IntervalStart, IntervalEnd(p.c)) = {}
         /\ batch' = Append(batch, p)
         /\ start_frames' = Append(start_frames, NoCrop)
         /\ Raise("ValueError")
    /\ UNCHANGED <<Config, trainVars>>

\* lines 57-67: the pair is cropped at a random offset
ItemCropped ==
    /\ cpc = "loop" /\ Len(batch) < batch_size
    /\ \E item \in dataset :
         LET p == RawPair(item) IN
         /\ AssertReady(p.x, p.c, hop_size, RawContextWindow)
         /\ Len(p.x) > batch_max_steps
         /\ \E start_frame \in Randint(IntervalStart, IntervalEnd(p.c)) :
              LET x == CropAudio(p.x, start_frame)
                  c == CropFeatures(p.c, start_frame)
              IN IF AssertReady(x, c, hop_size, aux_context_window)
                 THEN Append2(item, x, c, start_frame)
                 ELSE /\ batch' = Append(batch, p)
                      /\ start_frames' = Append(start_frames, start_frame)
                      /\ Raise("AssertionError")
    /\ UNCHANGED <<Config, trainVars>>

\* lines 68-72 on an empty list: max() raises
EmptyBatchRaises ==
    /\ cpc = "loop"
    /\ Len(new_batch) = 0
    /\ Raise("ValueError")
    /\ UNCHANGED <<batch, start_frames>>
    /\ UNCHANGED <<Config, trainVars>>

\* lines 68-88; each local is bound once, in the order of the code
PadAndReturn ==
    /\ cpc = "loop"
    /\ Len(new_batch) > 0
    /\ \E xlens \in {Xlens(new_batch)}, clens \in {Clens(new_batch)} :
       \E max_olen \in {MaxOf(xlens)}, max_clen \in {MaxOf(clens)} :
       \E y_np \in {NpArray(PaddedAudio(new_batch, max_olen), 1)},
          c_np \in {NpArray(PaddedFeatures(new_batch, max_clen), FeatDim)} :
       \E y_batch \in {Transpose21(y_np)}, c_batch \in {Transpose21(c_np)} :
       \E z_batch \in {Randn(y_batch.shape)} :
          ret' = [kind |-> "batch", z_batch |-> z_batch, c_batch |-> c_batch,
                  y_batch |-> y_batch, input_lengths |-> xlens]
    /\ cpc' = "returned"
    /\ UNCHANGED <<batch, new_batch, start_frames, err>>
    /\ UNCHANGED <<Config, trainVars>>

CallStart ==
    /\ cpc = "loop"
    /\ batch = <<>> /\ new_batch = <<>> /\ start_frames = <<>>
    /\ ret = NoBatch /\ err = "none"



\* ============================================================ main()
Nets == {"g", "d"}

\* lines 152-153: the networks whose parameters an optimizer updates
OptimizerParams(o) == {o}

\* the networks whose parameters a loss reaches on backward(): loss_g runs the
\* generator's output through the discriminator (lines 169-174); loss_d is
\* computed from the real audio and the detached fake audio (lines 183-187)
LossGraphAttached(loss) == {"g", "d"}

LossGraph(loss) == IF loss = "loss_g" THEN {"g", "d"} ELSE {"d"}

\* line 182
DiscriminatorActiveFrom(steps, start) == steps >= start

DiscriminatorActive(steps, start) == steps > start

\* lines 177, 190
ClipEnabled == grad_norm > 0

NoGrad == [losses |-> {}, clipped |-> FALSE]

\* optimizer.zero_grad()
ZeroGrad(g, o) == [n \in Nets |-> IF n \in OptimizerParams(o) THEN NoGrad ELSE g[n]]

\* loss.backward(): gradients accumulate
Backward(g, loss) ==
    [n \in Nets |-> IF n \in LossGraph(loss)
                    THEN [losses |-> g[n].losses \cup {loss}, clipped |-> FALSE]
                    ELSE g[n]]

\* clip_grad_norm_(model.parameters(), grad_norm)
ClipGrad(g, m) == [g EXCEPT ![m].clipped = TRUE]

\* optimizer.step(): one update of each parameter that has a gradient
OptimizerStep(p, g, o) ==
    [n \in Nets |-> IF n \in OptimizerParams(o) /\ g[n].losses # {}
                    THEN p[n] + 1 ELSE p[n]]

SchedulerStepNone(s, n) == s

\* schedular.step()
SchedulerStep(s, n) == [s EXCEPT ![n] = @ + 1]

TrainConfig == <<iters, discriminator_start_iter, grad_norm, num_batches>>

Step(from, to, op) ==
    /\ pc = from
    /\ pc' = to
    /\ log' = Append(log, op)
    /\ UNCHANGED <<TrainConfig, global_steps, batch_idx, iter_step, collaterVars>>

\* the end of an inner iteration
IterationDone ==
    /\ pc' = "loop"
    /\ iters_done' = iters_done + 1
    /\ gated_done' = IF global_steps > discriminator_start_iter
                     THEN gated_done + 1 ELSE gated_done

\* line 168: the loader yields the next batch of the pass
NextBatch ==
    /\ pc = "loop"
    /\ batch_idx < num_batches
    /\ batch_idx' = batch_idx + 1
    /\ pc' = "g_forward"
    /\ log' = <<>>
    /\ iter_step' = global_steps
    /\ UNCHANGED <<TrainConfig, global_steps, params, optim, sched, grad,
                   iters_done, gated_done, collaterVars>>

\* line 168: the collater raises while the loader builds the batch
LoaderRaises ==
    /\ pc = "loop"
    /\ batch_idx < num_batches
    /\ pc' = "aborted"
    /\ UNCHANGED <<TrainConfig, global_steps, batch_idx, params, optim, sched,
                   grad, log, iter_step, iters_done, gated_done, collaterVars>>

\* lines 169-174
GForward ==
    /\ Step("g_forward", "g_zero_grad", "g_forward")
    /\ UNCHANGED <<params, optim, sched, grad, iters_done, gated_done>>

\* line 175
GZeroGrad ==
    /\ Step("g_zero_grad", "g_backward", "g_zero_grad")
    /\ grad' = ZeroGrad(grad, "g")
    /\ UNCHANGED <<params, optim, sched, iters_done, gated_done>>

\* line 176
GBackward ==
    /\ Step("g_backward", IF ClipEnabled THEN "g_clip" ELSE "g_step", "g_backward")
    /\ grad' = Backward(grad, "loss_g")
    /\ UNCHANGED <<params, optim, sched, iters_done, gated_done>>

\* lines 177-178
GClip ==
    /\ Step("g_clip", "g_step", "g_clip")
    /\ grad' = ClipGrad(grad, "g")
    /\ UNCHANGED <<params, optim, sched, iters_done, gated_done>>

\* line 179
GStep ==
    /\ Step("g_step", "g_sched", "g_step")
    /\ params' = OptimizerStep(params, grad, "g")
    /\ optim' = [optim EXCEPT !["g"] = @ + 1]
    /\ UNCHANGED <<sched, grad, iters_done, gated_done>>

\* line 180
GSched ==
    /\ Step("g_sched", "d_gate", "g_sched")
    /\ sched' = SchedulerStep(sched, "g")
    /\ UNCHANGED <<params, optim, grad, iters_done, gated_done>>

\* line 182, false: the iteration ends
DSkipped ==
    /\ pc = "d_gate"
    /\ ~DiscriminatorActive(global_steps, discriminator_start_iter)
    /\ IterationDone
    /\ UNCHANGED <<TrainConfig, global_steps, batch_idx, params, optim, sched,
                   grad, log, iter_step, collaterVars>>

\* lines 182-187
DForward ==
    /\ DiscriminatorActive(global_steps, discriminator_start_iter)
    /\ Step("d_gate", "d_zero_grad", "d_forward")
    /\ UNCHANGED <<params, optim, sched, grad, iters_done, gated_done>>

\* line 188
DZeroGrad ==
    /\ Step("d_zero_grad", "d_backward", "d_zero_grad")
    /\ grad' = ZeroGrad(grad, "d")
    /\ UNCHANGED <<params, optim, sched, iters_done, gated_done>>

\* line 189
DBackward ==
    /\ Step("d_backward", IF ClipEnabled THEN "d_clip" ELSE "d_step", "d_backward")
    /\ grad' = Backward(grad, "loss_d")
    /\ UNCHANGED <<params, optim, sched, iters_done, gated_done>>

\* lines 190-191
DClip ==
    /\ Step("d_clip", "d_step", "d_clip")
    /\ grad' = ClipGrad(grad, "d")
    /\ UNCHANGED <<params, optim, sched, iters_done, gated_done>>

\* line 192
DStep ==
    /\ Step("d_step", "d_sched", "d_step")
    /\ params' = OptimizerStep(params, grad, "d")
    /\ optim' = [optim EXCEPT !["d"] = @ + 1]
    /\ UNCHANGED <<sched, grad, iters_done, gated_done>>

\* line 193: the iteration ends
DSched ==
    /\ pc = "d_sched"
    /\ log' = Append(log, "d_sched")
    /\ sched' = SchedulerStep(sched, "d")
    /\ IterationDone
    /\ UNCHANGED <<TrainConfig, global_steps, batch_idx, params, optim, grad,
                   iter_step, collaterVars>>

\* lines 195-197: the loader is exhausted
PassEnd ==
    /\ pc = "loop"
    /\ batch_idx = num_batches
    /\ global_steps' = global_steps + 1
    /\ IF global_steps + 1 >= iters
       THEN pc' = "done" /\ batch_idx' = batch_idx
       ELSE pc' = "loop" /\ batch_idx' = 0
    /\ UNCHANGED <<TrainConfig, params, optim, sched, grad, log, iter_step,
                   iters_done, gated_done, collaterVars>>

\* lines 147-162
TrainStart ==
    /\ global_steps = 0
    /\ pc = "loop"
    /\ batch_idx = 0
    /\ params = [n \in Nets |-> 0]
    /\ optim = [n \in Nets |-> 0]
    /\ sched = [n \in Nets |-> 0]
    /\ grad = [n \in Nets |-> NoGrad]
    /\ log = <<>>
    /\ iter_step = 0
    /\ iters_done = 0
    /\ gated_done = 0

\* the collater as main() constructs it with the defaults, not called
CollaterIdle ==
    /\ hop_size = DefaultHopSize
    /\ aux_context_window = DefaultAuxContextWindow
    /\ arg_batch_max_steps = DefaultBatchMaxSteps
    /\ batch_max_steps = NormalizeSteps(arg_batch_max_steps, hop_size)
    /\ batch_max_frames = batch_max_steps \div hop_size
    /\ batch_size = 1
    /\ dataset = {}
    /\ cpc = "idle"
    /\ batch = <<>> /\ new_batch = <<>> /\ start_frames = <<>>
    /\ ret = NoBatch /\ err = "none"

\* the loop of main(), not entered
TrainIdle ==
    /\ iters = 1 /\ discriminator_start_iter = 0 /\ grad_norm = 0
    /\ num_batches = 1
    /\ global_steps = 0
    /\ pc = "idle"
    /\ batch_idx = 0
    /\ params = [n \in Nets |-> 0]
    /\ optim = [n \in Nets |-> 0]
    /\ sched = [n \in Nets |-> 0]
    /\ grad = [n \in Nets |-> NoGrad]
    /\ log = <<>>
    /\ iter_step = 0
    /\ iters_done = 0
    /\ gated_done = 0

InitTrain ==
    /\ iters \in (0 - MaxNegative)..MaxIters
    /\ discriminator_start_iter \in (0 - MaxNegative)..(MaxIters + 1)
    /\ grad_norm \in (0 - 1)..1
    /\ num_batches \in 1..MaxPassBatches
    /\ TrainStart
    /\ CollaterIdle

NextTrain ==
    \/ NextBatch
    \/ LoaderRaises
    \/ GForward
    \/ GZeroGrad
    \/ GBackward
    \/ GClip
    \/ GStep
    \/ GSched
    \/ DSkipped
    \/ DForward
    \/ DZeroGrad
    \/ DBackward
    \/ DClip
    \/ DStep
    \/ DSched
    \/ PassEnd

SpecTrain == InitTrain /\ [][NextTrain]_vars

\* ================================================= the specifications
\* every pair of lengths up to MaxFrames frames
SmallDataset(hop) ==
    {<<l, t>> : l \in 0..(MaxFrames * hop), t \in 0..MaxFrames}

Init ==
    /\ hop_size \in 1..MaxHop
    /\ aux_context_window \in 0..MaxWindow
    /\ arg_batch_max_steps \in 0..MaxSteps
    /\ batch_max_steps = NormalizeSteps(arg_batch_max_steps, hop_size)
    /\ batch_max_frames = batch_max_steps \div hop_size
    /\ batch_size \in 1..MaxBatch
    /\ dataset = SmallDataset(hop_size)
    /\ CallStart
    /\ TrainIdle

Next ==
    \/ ItemRawAssertFails
    \/ ItemPassThrough
    \/ ItemRandintRaises
    \/ ItemCropped
    \/ EmptyBatchRaises
    \/ PadAndReturn

Spec == Init /\ [][Next]_vars

\* ------------------------------------------------ the defaults' scenario
\* hop_size=256, aux_context_window=2, batch_max_steps=20480: a pair of 40960
\* samples with 164 frames and one with 160 frames, a pair of exactly
\* batch_max_steps samples, and a pair one frame longer than that
ScenarioDataset ==
    {<<40960, 164>>, <<40960, 160>>, <<20480, 80>>, <<20736, 81>>}

InitScenario ==
    /\ hop_size = DefaultHopSize
    /\ aux_context_window = DefaultAuxContextWindow
    /\ arg_batch_max_steps = DefaultBatchMaxSteps
    /\ batch_max_steps = NormalizeSteps(arg_batch_max_steps, hop_size)
    /\ batch_max_frames = batch_max_steps \div hop_size
    /\ batch_size = 1
    /\ dataset = ScenarioDataset
    /\ CallStart
    /\ TrainIdle

SpecScenario == InitScenario /\ [][Next]_vars

\* ======================================================= the collater's claims
\* the largest multiple of hop_size not above the constructor's argument
NormalizedTarget == (arg_batch_max_steps \div hop_size) * hop_size
TargetFrames == arg_batch_max_steps \div hop_size
Appended == 1..Len(new_batch)
RawOk(i) == Len(batch[i].x) = Len(batch[i].c) * hop_size
NeedsCrop(i) == Len(batch[i].x) > NormalizedTarget
IntervalEmpty(i) ==
    Len(batch[i].c) - TargetFrames - aux_context_window <= aux_context_window

\* C1: every pair the per-item step appends to the batch satisfies
\* len(audio') = (len(features') - 2 * aux_context_window) * hop_size, cropped
\* or passed through unchanged.
C1_AppendedAligned ==
    \A i \in Appended :
        Len(new_batch[i].x)
            = (Len(new_batch[i].c) - 2 * aux_context_window) * hop_size

\* C2: a pair whose audio is longer than the normalized target is cropped to
\* exactly that target and to batch_max_steps // hop_size + 2 * aux_context_window
\* frames, for every offset drawn; the audio slice starts at offset * hop_size,
\* the feature slice at offset - aux_context_window, and neither runs past the
\* end (or the start) of its sequence.
C2_CropExact ==
    \A i \in Appended :
        NeedsCrop(i) =>
            LET f == start_frames[i]
                x == new_batch[i].x
                c == new_batch[i].c
            IN /\ f # NoCrop
               /\ Len(x) = NormalizedTarget
               /\ Len(c) = TargetFrames + 2 * aux_context_window
               /\ f - aux_context_window >= 0
               /\ f * hop_size + NormalizedTarget <= Len(batch[i].x)
               /\ f + aux_context_window + TargetFrames <= Len(batch[i].c)
               /\ \A k \in 1..Len(x) : x[k] = batch[i].x[f * hop_size + k]
               /\ \A k \in 1..Len(c) :
                      c[k] = batch[i].c[f - aux_context_window + k]

C2_Witness ==
    /\ Len(new_batch) > 0
    /\ NeedsCrop(1)
    /\ arg_batch_max_steps % hop_size # 0
    /\ NormalizedTarget > 0
    /\ aux_context_window > 0
    /\ start_frames[1] > aux_context_window

ScenarioConfig ==
    /\ hop_size = 256 /\ aux_context_window = 2 /\ arg_batch_max_steps = 20480

\* a pair of these lengths, once consumed, is appended with the lengths given
AcceptedAs(xlen, clen, outx, outc) ==
    \A i \in 1..Len(batch) :
        (Len(batch[i].x) = xlen /\ Len(batch[i].c) = clen) =>
            /\ i <= Len(new_batch)
            /\ cpc # "raised"
            /\ Len(new_batch[i].x) = outx
            /\ Len(new_batch[i].c) = outc

\* C3 (as amended): with hop_size=256, aux_context_window=2 and
\* batch_max_steps=20480, a pair of 40960 samples and 160 frames
\* (len(audio) = len(features) * 256) is accepted and cropped to exactly 20480
\* samples and 84 frames.
C3_Scenario160 == ScenarioConfig => AcceptedAs(40960, 160, 20480, 84)

C3_Witness ==
    /\ ScenarioConfig
    /\ cpc = "returned"
    /\ Len(batch[1].x) = 40960 /\ Len(batch[1].c) = 160
    /\ start_frames[1] = 77
    /\ ret.y_batch.shape = <<1, 1, 20480>>
    /\ ret.c_batch.shape = <<1, FeatDim, 84>>

\* C3 (as claimed): the pair of 40960 samples and 164 frames is accepted and
\* cropped to exactly 20480 samples and 84 frames.
C3_Scenario164 == ScenarioConfig => AcceptedAs(40960, 164, 20480, 84)

\* C6: the target tensor is (batch, 1, max post-crop audio length); row i holds
\* item i's samples below its own length and zeros from there on; the length
\* vector has one entry per item, the item's length before padding, never
\* above the padded length; the noise tensor has the target's shape.
C6_Padding ==
    ret # NoBatch =>
        LET y == ret.y_batch
            n == Len(new_batch)
            T == y.shape[3]
        IN /\ n > 0
           /\ y.shape[1] = n /\ y.shape[2] = 1
           /\ \E i \in Appended : Len(new_batch[i].x) = T
           /\ \A i \in Appended : Len(new_batch[i].x) <= T
           /\ Len(y.data) = n
           /\ \A i \in Appended :
                 /\ Len(y.data[i]) = 1
                 /\ Len(y.data[i][1]) = T
                 /\ \A k \in 1..T :
                       y.data[i][1][k] =
                           IF k <= Len(new_batch[i].x)
                           THEN new_batch[i].x[k] ELSE 0
           /\ Len(ret.input_lengths) = n
           /\ \A i \in Appended :
                 /\ ret.input_lengths[i] = Len(new_batch[i].x)
                 /\ ret.input_lengths[i] <= T
           /\ ret.z_batch.shape = y.shape
           /\ Len(ret.z_batch.data) = n
           /\ \A i \in Appended :
                 /\ Len(ret.z_batch.data[i]) = 1
                 /\ Len(ret.z_batch.data[i][1]) = T

C6_Witness ==
    /\ ret # NoBatch
    /\ Len(new_batch) = 2
    /\ start_frames[1] # NoCrop
    /\ start_frames[2] = NoCrop
    /\ Len(new_batch[2].x) > 0
    /\ Len(new_batch[2].x) < Len(new_batch[1].x)
    /\ ret.input_lengths[2] < ret.y_batch.shape[3]

\* C7: a batch is returned only for a non-empty argument whose every raw pair
\* satisfies len(audio) = len(features) * hop_size and, where it needs
\* cropping, has a non-empty offset interval; a pair that violates either
\* aborts the call there with an error, and an aborted call returns nothing.
C7_FailFast ==
    /\ ret # NoBatch =>
          /\ cpc = "returned"
          /\ Len(batch) > 0
          /\ Len(new_batch) = Len(batch)
          /\ \A i \in 1..Len(batch) :
                RawOk(i) /\ (NeedsCrop(i) => ~IntervalEmpty(i))
    /\ \A i \in 1..Len(batch) :
          (~RawOk(i) \/ (NeedsCrop(i) /\ IntervalEmpty(i))) =>
              /\ cpc = "raised"
              /\ i = Len(batch)
              /\ Len(new_batch) = i - 1
              /\ err = (IF RawOk(i) THEN "ValueError" ELSE "AssertionError")
    /\ cpc = "raised" => ret = NoBatch /\ err # "none"
    /\ cpc = "returned" => ret # NoBatch /\ err = "none"
    /\ (cpc = "raised" /\ Len(batch) = Len(new_batch)) => Len(batch) = 0

C7_Witness ==
    /\ cpc = "raised"
    /\ ret = NoBatch
    /\ Len(batch) = 2
    /\ Len(new_batch) = 1
    /\ RawOk(2) /\ NeedsCrop(2) /\ IntervalEmpty(2)
    /\ aux_context_window > 0

\* ================================================== the training loop's claims
BetweenIterations == pc \in {"loop", "done", "aborted"}
InIteration == pc \notin {"loop", "done", "aborted", "idle"}
\* an inner iteration has run to its end and no other has begun
IterationCompleted == BetweenIterations /\ log # <<>>

\* the operations ops occur in l, in this order
InOrder(l, ops) ==
    \E f \in [1..Len(ops) -> 1..Len(l)] :
        /\ \A i \in 1..Len(ops) : l[f[i]] = ops[i]
        /\ \A i \in 1..(Len(ops) - 1) : f[i] < f[i + 1]

DUpdate == <<"d_zero_grad", "d_backward", "d_step", "d_sched">>
DOps == {"d_forward", "d_zero_grad", "d_backward", "d_clip", "d_step", "d_sched"}
OpsOf(l) == {l[i] : i \in 1..Len(l)}

\* C4 (as amended): with discriminator_start_iter = 0, every inner iteration
\* run under global_steps >= 1 (the second pass onward) performs a
\* discriminator update (zero-grad, backward, optimizer step, scheduler step),
\* and no iteration of the first pass (global_steps = 0) performs any part of it.
C4_FromSecondPass ==
    (discriminator_start_iter = 0 /\ IterationCompleted) =>
        /\ iter_step >= 1 => InOrder(log, DUpdate)
        /\ iter_step = 0 => OpsOf(log) \cap DOps = {}

C4_Witness ==
    /\ discriminator_start_iter = 0
    /\ IterationCompleted
    /\ iter_step = 1
    /\ InOrder(log, DUpdate)
    /\ iters_done > gated_done

\* C4 (as claimed): with discriminator_start_iter = 0, every inner iteration of
\* the run, those of the first pass included, performs a discriminator update.
C4_FromFirstPass ==
    (discriminator_start_iter = 0 /\ IterationCompleted) =>
        InOrder(log, DUpdate)

\* C5: if discriminator_start_iter is greater than iters, the discriminator's
\* parameters (and its optimizer and scheduler) are at the end of the run what
\* they were at its start.
C5_NeverTrained ==
    (discriminator_start_iter > iters /\ pc = "done") =>
        params["d"] = 0 /\ optim["d"] = 0 /\ sched["d"] = 0

\* C8: no part of an inner iteration runs while global_steps >= iters, whatever
\* the budget iters.
C8_BudgetTerminal == InIteration => global_steps < iters

IsPrefix(a, b) == Len(a) <= Len(b) /\ \A i \in 1..Len(a) : a[i] = b[i]

GeneratorOrder ==
    <<"g_forward", "g_zero_grad", "g_backward">>
        \o (IF grad_norm > 0 THEN <<"g_clip">> ELSE <<>>)
        \o <<"g_step", "g_sched">>

DiscriminatorOrder ==
    <<"d_forward", "d_zero_grad", "d_backward">>
        \o (IF grad_norm > 0 THEN <<"d_clip">> ELSE <<>>)
        \o <<"d_step", "d_sched">>

C9_Order == IsPrefix(log, GeneratorOrder \o DiscriminatorOrder)

DPhase == pc \in {"d_zero_grad", "d_backward", "d_clip", "d_step", "d_sched"}
             \/ (pc = "d_gate" /\ pc' = "d_zero_grad")

C9_Frame ==
    DPhase => /\ params'["g"] = params["g"]
              /\ optim'["g"] = optim["g"]
              /\ sched'["g"] = sched["g"]
              /\ grad'["g"] = grad["g"]

\* C9: in every inner iteration the generator update runs whole, in the order
\* zero-grad, backward, clip (when enabled), optimizer step, scheduler step,
\* before any operation of the discriminator phase, and no step of the
\* discriminator phase changes the generator's parameters (their gradients
\* included), optimizer step count or scheduler step count.
C9_GeneratorFirst == []C9_Order /\ [][C9_Frame]_vars

C9_Witness ==
    /\ IterationCompleted
    /\ grad_norm > 0
    /\ log = GeneratorOrder \o DiscriminatorOrder
    /\ params["g"] = 2 /\ params["d"] = 1

\* C10: between inner iterations the generator's scheduler and optimizer have
\* each stepped once per iteration run so far, the discriminator's once per
\* iteration run under global_steps > discriminator_start_iter, and the
\* discriminator's counts are never above the generator's.
C10_StepCounts ==
    BetweenIterations =>
        /\ sched["g"] = optim["g"] /\ optim["g"] = iters_done
        /\ sched["d"] = optim["d"] /\ optim["d"] = gated_done
        /\ optim["d"] <= optim["g"] /\ sched["d"] <= sched["g"]

C10_Witness ==
    /\ pc = "loop"
    /\ iters_done >= 3
    /\ iters_done > global_steps + 1
    /\ gated_done >= 1
    /\ gated_done < iters_done
    /\ sched["g"] = iters_done /\ sched["d"] = gated_done

=============================================================================
